---------------------------- MODULE Spec2Model ----------------------------
(***************************************************************************)
(* Model of upftrim.UpfTrimmer (src/upftrim.py): the single-pass,          *)
(* tag-aware line scanner that trims the tabulated sections of a UPF file  *)
(* to a target mesh size.                                                  *)
(*                                                                         *)
(* A text line is modelled by what the scanner's regular expressions and   *)
(* substring tests can see of it:                                          *)
(*   kind  "empty"  the line == ''                                         *)
(*         "open"   re.match(r"<\w+", line) succeeds, name is the \w+ run  *)
(*         "close"  the line begins with "<" but not with <\w  (</PP_R>)   *)
(*         "inner"  the line holds <\w past its first character            *)
(*         "text"   any other non-empty line                               *)
(*         "note"   the metadata block synthesized for PP_INFO             *)
(*   gt    '>' in line                                                     *)
(*   msz   the number in mesh_size="N", or None without the attribute      *)
(*   sz    the number in size="N", or None                                 *)
(*   cols  the number in columns="N", or None                              *)
(*                                                                         *)
(* The cursor line_number is zero-based as in the source; lines is a       *)
(* 1-based sequence, so current_line is lines[line_number + 1].            *)
(***************************************************************************)
EXTENDS Integers, Sequences, FiniteSets

\* Longest line buffer built from the whole Catalogue, longest built from the
\* Core lines only, and largest target mesh that are explored.
MaxLen == 3
MaxLong == 6
MaxMesh == 3

\* Python's None for current_size / current_columns / an absent attribute.
None == -1

\* The allow-list of tags whose data is trimmed.
HEADERS == {"PP_CHI", "PP_R", "PP_RAB", "PP_LOCAL", "PP_BETA", "PP_NLCC", "PP_RHOATOM"}

Ln(kind, name, gt, msz, sz, cols) ==
    [kind |-> kind, name |-> name, gt |-> gt, msz |-> msz, sz |-> sz, cols |-> cols]

\* The lines an input buffer is built from.
Catalogue ==
    { Ln("empty", "", FALSE, None, None, None),          \* ''
      Ln("text",  "", FALSE, None, None, None),          \* '0.1 0.2'
      Ln("inner", "", FALSE, None, None, None),          \* 'r <rc'
      Ln("close", "", TRUE,  None, None, None),          \* '</PP_R>'
      Ln("open",  "PP_INFO", TRUE,  None, None, None),   \* '<PP_INFO>'
      Ln("open",  "PP_INFO", FALSE, None, None, None),   \* '<PP_INFO'
      Ln("open",  "PP_MESH", TRUE,  7, None, None),      \* '<PP_MESH mesh_size="7">'
      Ln("text",  "", TRUE,  7, None, None),             \* 'mesh_size="7"/>'
      Ln("open",  "PP_R", TRUE,  None, 7, 2),            \* '<PP_R size="7" columns="2">'
      Ln("open",  "PP_R", TRUE,  None, 7, 1),            \* '<PP_R size="7" columns="1">'
      Ln("open",  "PP_R", TRUE,  None, 7, None),         \* '<PP_R size="7">'
      Ln("open",  "PP_R", TRUE,  None, 7, 0),            \* '<PP_R size="7" columns="0">'
      Ln("open",  "PP_R", TRUE,  None, 0, 2),            \* '<PP_R size="0" columns="2">'
      Ln("open",  "PP_R", TRUE,  None, None, None),      \* '<PP_R>'
      Ln("open",  "PP_BETA", FALSE, None, None, None),   \* '<PP_BETA'
      Ln("text",  "", TRUE,  None, 7, 1) }               \* 'size="7" columns="1">'

\* The lines the longer buffers of LongSpec are built from.
Core ==
    { Ln("empty", "", FALSE, None, None, None),          \* ''
      Ln("text",  "", FALSE, None, None, None),          \* '0.1 0.2'
      Ln("open",  "PP_INFO", FALSE, None, None, None),   \* '<PP_INFO'
      Ln("text",  "", TRUE,  7, None, None),             \* 'mesh_size="7"/>'
      Ln("open",  "PP_MESH", TRUE,  7, None, None),      \* '<PP_MESH mesh_size="7">'
      Ln("open",  "PP_R", TRUE,  None, 7, 1) }           \* '<PP_R size="7" columns="1">'

\* The block appended after the PP_INFO opener; it records the mesh applied.
MetaBlock(m) == Ln("note", "", FALSE, None, m, None)

VARIABLES
    lines,            \* self.lines
    mesh,             \* self.mesh
    line_number,      \* self.line_number
    output_lines,     \* self.output_lines
    current_size,     \* self.current_size
    current_columns,  \* self.current_columns
    tag_name,         \* process_tag's local tag_name
    trim,             \* process_tag's local trim
    remaining,        \* iterations left of trim_content's for loop
    recording,        \* goto_next_tag's local recording
    pc,               \* position in process_file / process_tag
    error,            \* the exception that ended the run, "" if none
    saved,            \* save_output was called
    origin,           \* history: per output entry, the 1-based input line it copies (0: the metadata block)
    tag_start,        \* history: the cursor when the current process_tag call began
    body_start,       \* history: Len(output_lines) when that call left the opener, None before
    jump_start,       \* history: Len(output_lines) when that call entered goto_next_tag, None before
    jump_line,        \* history: the cursor when that call entered goto_next_tag, None before
    retrim            \* the buffer is the saved output of a completed run with the same mesh

vars == <<lines, mesh, line_number, output_lines, current_size,
          current_columns, tag_name, trim, remaining, recording, pc, error, saved,
          origin, tag_start, body_start, jump_start, jump_line, retrim>>

total_nlines == Len(lines)

\* The model keeps the first OutCap entries of output_lines: more than any run
\* that ends appends (OutputBoundOnlyWhenLooping).
OutCap == 2 * total_nlines + mesh

current_line == lines[line_number + 1]

is_end_of_file == line_number = total_nlines - 1

\* next_line without the test for the last line.
next_line_unclamped == line_number + 1

\* next_line that starts again at the first line after the last one.
next_line_wraps == IF line_number = total_nlines - 1 THEN 0 ELSE line_number + 1

\* next_line: the cursor after the call.
next_line_number == IF line_number = total_nlines - 1 THEN line_number ELSE line_number + 1

MatchOpener(l) == l.kind = "open"
MatchLt(l) == l.kind \in {"open", "close"}
SearchOpener(l) == l.kind \in {"open", "inner"}
HasMeshSize(l) == l.msz # None
HasSize(l) == l.sz # None \/ l.msz # None
HasColumns(l) == l.cols # None

\* An append that puts the new entry in front of the others.
EmitFront(out, l) == IF Len(out) < OutCap THEN << l >> \o out ELSE out

\* list.append, up to the OutCap entries the model keeps.
Emit(out, l) == IF Len(out) < OutCap THEN Append(out, l) ELSE out

\* replace_size: the line it appends.
replace_size_line(l, t) ==
    IF HasMeshSize(l) THEN [l EXCEPT !.msz = mesh]
    ELSE IF HasSize(l) /\ t THEN [l EXCEPT !.sz = mesh]
    ELSE l

\* replace_size: current_size after the call.
replace_size_size(l, t, old) ==
    IF ~HasMeshSize(l) /\ HasSize(l) /\ t THEN l.sz ELSE old

\* replace_size: current_columns after the call.
replace_size_columns(l, t, old) ==
    IF HasColumns(l) /\ t THEN l.cols ELSE old

\* save_output: the entries written to the file (an empty entry is skipped).
Written(out) == SelectSeq(out, LAMBDA l : l.kind # "empty")

\* The text of the metadata block read back: its three lines of prose, which hold
\* no '<' and no '>', and the empty line left by the newline the block ends with.
NoteLines ==
    << Ln("text", "", FALSE, None, None, None),
       Ln("text", "", FALSE, None, None, None),
       Ln("text", "", FALSE, None, None, None),
       Ln("empty", "", FALSE, None, None, None) >>

\* file.read_text().split('\n') of the file save_output wrote from the entries w:
\* every entry was written with a newline after it, so the last line is ''.
RECURSIVE ReadLines(_)
ReadLines(w) ==
    IF w = <<>> THEN << Ln("empty", "", FALSE, None, None, None) >>
    ELSE (IF Head(w).kind = "note" THEN NoteLines ELSE << Head(w) >>)
             \o ReadLines(Tail(w))

\* UpfTrimmer(lines, mesh) for the buffers of at most n lines over the alphabet.
Constructed(alphabet, n) ==
    /\ mesh \in 1..MaxMesh
    /\ lines \in UNION { [1..k -> alphabet] : k \in 1..n }
    /\ line_number = 0
    /\ output_lines = <<>>
    /\ current_size = None
    /\ current_columns = None
    /\ tag_name = ""
    /\ trim = FALSE
    /\ remaining = 0
    /\ recording = FALSE
    /\ pc = "tag"
    /\ error = ""
    /\ saved = FALSE
    /\ origin = <<>>
    /\ tag_start = 0
    /\ body_start = None
    /\ jump_start = None
    /\ jump_line = None
    /\ retrim = FALSE

Init == Constructed(Catalogue, MaxLen)

InitLong == Constructed(Core, MaxLong)

\* ProcessFileStop without the assert of process_file.
ProcessFileStopUnchecked ==
    /\ pc = "tag"
    /\ current_line.kind = "empty"
    /\ pc' = "done"
    /\ saved' = TRUE
    /\ UNCHANGED <<lines, mesh, retrim, line_number, output_lines, current_size,
                   current_columns, tag_name, trim, remaining, recording, error,
                   origin, tag_start, body_start, jump_start, jump_line>>

\* process_tag returns False on an empty line; process_file leaves its loop,
\* asserts is_end_of_file and saves.
ProcessFileStop ==
    /\ pc = "tag"
    /\ current_line.kind = "empty"
    /\ IF is_end_of_file
       THEN /\ pc' = "done"
            /\ saved' = TRUE
            /\ error' = error
       ELSE /\ pc' = "failed"
            /\ error' = "AssertionError"
            /\ saved' = saved
    /\ UNCHANGED <<lines, mesh, retrim, line_number, output_lines, current_size,
                   current_columns, tag_name, trim, remaining, recording,
                   origin, tag_start, body_start, jump_start, jump_line>>

\* ProcessTagNoMatch that copies the line and scans on instead of raising.
ProcessTagNoMatchSkips ==
    /\ pc = "tag"
    /\ current_line.kind # "empty"
    /\ ~MatchOpener(current_line)
    /\ output_lines' = Emit(output_lines, current_line)
    /\ origin' = Emit(origin, line_number + 1)
    /\ line_number' = next_line_number
    /\ pc' = "copy_check"
    /\ UNCHANGED <<lines, mesh, retrim, current_size, current_columns, tag_name, trim,
                   remaining, recording, error, saved, tag_start, body_start, jump_start, jump_line>>

\* process_tag on a line that re.match(r'^<(\w+)') does not match: .group raises.
ProcessTagNoMatch ==
    /\ pc = "tag"
    /\ current_line.kind # "empty"
    /\ ~MatchOpener(current_line)
    /\ pc' = "failed"
    /\ error' = "AttributeError"
    /\ current_size' = None
    /\ current_columns' = None
    /\ tag_start' = line_number
    /\ body_start' = None
    /\ jump_start' = None
    /\ jump_line' = None
    /\ UNCHANGED <<lines, mesh, retrim, line_number, output_lines,
                   tag_name, trim, remaining, recording, saved, origin>>

\* ProcessTagOneLine without the reset of current_size and current_columns.
ProcessTagOneLineKeeps ==
    /\ pc = "tag"
    /\ MatchOpener(current_line)
    /\ current_line.gt
    /\ LET l == current_line
           t == l.name \in HEADERS
       IN /\ tag_name' = l.name
          /\ trim' = t
          /\ current_size' = replace_size_size(l, t, current_size)
          /\ current_columns' = replace_size_columns(l, t, current_columns)
          /\ output_lines' = Emit(output_lines, replace_size_line(l, t))
          /\ origin' = Emit(origin, line_number + 1)
    /\ line_number' = next_line_number
    /\ pc' = "after_opener"
    /\ tag_start' = line_number
    /\ body_start' = None
    /\ jump_start' = None
    /\ jump_line' = None
    /\ UNCHANGED <<lines, mesh, retrim, remaining, recording, error, saved>>

\* process_tag on a one-line opener: the reset of current_size and
\* current_columns, trim, replace_size and next_line.
ProcessTagOneLine ==
    /\ pc = "tag"
    /\ MatchOpener(current_line)
    /\ current_line.gt
    /\ LET l == current_line
           t == l.name \in HEADERS
       IN /\ tag_name' = l.name
          /\ trim' = t
          /\ current_size' = replace_size_size(l, t, None)
          /\ current_columns' = replace_size_columns(l, t, None)
          /\ output_lines' = Emit(output_lines, replace_size_line(l, t))
          /\ origin' = Emit(origin, line_number + 1)
    /\ line_number' = next_line_number
    /\ pc' = "after_opener"
    /\ tag_start' = line_number
    /\ body_start' = None
    /\ jump_start' = None
    /\ jump_line' = None
    /\ UNCHANGED <<lines, mesh, retrim, remaining, recording, error, saved>>

\* After a one-line opener: the PP_INFO block, and the return when the current
\* line already begins the next tag.
AfterOneLine ==
    /\ pc = "after_opener"
    /\ LET info == tag_name = "PP_INFO"
           o1 == IF info THEN Emit(output_lines, MetaBlock(mesh)) ELSE output_lines
       IN /\ output_lines' = o1
          /\ origin' = IF info THEN Emit(origin, 0) ELSE origin
          /\ body_start' = Len(o1)
    /\ pc' = IF MatchOpener(current_line) THEN "tag"
             ELSE IF ~trim THEN "copy" ELSE "size"
    /\ UNCHANGED <<lines, mesh, retrim, line_number, current_size, current_columns, tag_name,
                   trim, remaining, recording, error, saved, tag_start, jump_start, jump_line>>

\* process_tag on an opener without '>': the reset, trim, and the first
\* replace_size of the multi-line loop.
ProcessTagMultiLine ==
    /\ pc = "tag"
    /\ MatchOpener(current_line)
    /\ ~current_line.gt
    /\ LET l == current_line
           t == l.name \in HEADERS
       IN /\ tag_name' = l.name
          /\ trim' = t
          /\ current_size' = replace_size_size(l, t, None)
          /\ current_columns' = replace_size_columns(l, t, None)
          /\ output_lines' = Emit(output_lines, replace_size_line(l, t))
          /\ origin' = Emit(origin, line_number + 1)
    /\ pc' = "opener_gt"
    /\ tag_start' = line_number
    /\ body_start' = None
    /\ jump_start' = None
    /\ jump_line' = None
    /\ UNCHANGED <<lines, mesh, retrim, line_number, remaining, recording, error, saved>>

\* The multi-line loop: replace_size of a further line of the opener.
OpenerLine ==
    /\ pc = "opener"
    /\ output_lines' = Emit(output_lines, replace_size_line(current_line, trim))
    /\ origin' = Emit(origin, line_number + 1)
    /\ current_size' = replace_size_size(current_line, trim, current_size)
    /\ current_columns' = replace_size_columns(current_line, trim, current_columns)
    /\ pc' = "opener_gt"
    /\ UNCHANGED <<lines, mesh, retrim, line_number, tag_name, trim, remaining, recording,
                   error, saved, tag_start, body_start, jump_start, jump_line>>

\* The multi-line loop: next_line, and the break when the line held '>'.
OpenerAdvance ==
    /\ pc = "opener_gt"
    /\ line_number' = next_line_number
    /\ IF current_line.gt
       THEN /\ body_start' = Len(output_lines)
            /\ pc' = IF ~trim THEN "copy" ELSE "size"
       ELSE /\ body_start' = body_start
            /\ pc' = "opener"
    /\ UNCHANGED <<lines, mesh, retrim, output_lines, origin, current_size, current_columns,
                   tag_name, trim, remaining, recording, error, saved, tag_start,
                   jump_start, jump_line>>

\* The pass-through loop of a tag that is not trimmed: append, next_line.
CopyLine ==
    /\ pc = "copy"
    /\ output_lines' = Emit(output_lines, current_line)
    /\ origin' = Emit(origin, line_number + 1)
    /\ line_number' = next_line_number
    /\ pc' = "copy_check"
    /\ UNCHANGED <<lines, mesh, retrim, current_size, current_columns, tag_name, trim,
                   remaining, recording, error, saved, tag_start, body_start, jump_start, jump_line>>

\* The pass-through loop: return when the current line holds <\w.
CopyCheck ==
    /\ pc = "copy_check"
    /\ pc' = IF SearchOpener(current_line) THEN "tag" ELSE "copy"
    /\ UNCHANGED <<lines, mesh, retrim, line_number, output_lines, origin,
                   current_size, current_columns, tag_name, trim, remaining, recording,
                   error, saved, tag_start, body_start, jump_start, jump_line>>

\* nlines rounded up instead of down.
nlines_rounded_up == (mesh + current_columns - 1) \div current_columns

\* nlines = self.mesh // self.current_columns
nlines == mesh \div current_columns

\* TrimDecision that takes absent or zero columns as one value per row.
TrimDecisionDefaultColumns ==
    /\ pc = "size"
    /\ IF current_size = None \/ current_size = 0
       THEN /\ pc' = "tag"
            /\ UNCHANGED remaining
       ELSE /\ pc' = "trim"
            /\ remaining' = IF current_columns \in {None, 0} THEN mesh ELSE nlines
    /\ UNCHANGED <<lines, mesh, retrim, line_number, output_lines, origin, error,
                   current_size, current_columns, tag_name, trim, recording, saved,
                   tag_start, body_start, jump_start, jump_line>>

\* if self.current_size: nlines = ...; trim_content(nlines), else return True.
TrimDecision ==
    /\ pc = "size"
    /\ IF current_size = None \/ current_size = 0
       THEN /\ pc' = "tag"
            /\ UNCHANGED <<remaining, error>>
       ELSE IF current_columns = None
       THEN /\ pc' = "failed"
            /\ error' = "TypeError"
            /\ UNCHANGED remaining
       ELSE IF current_columns = 0
       THEN /\ pc' = "failed"
            /\ error' = "ZeroDivisionError"
            /\ UNCHANGED remaining
       ELSE /\ pc' = "trim"
            /\ remaining' = nlines
            /\ error' = error
    /\ UNCHANGED <<lines, mesh, retrim, line_number, output_lines, origin,
                   current_size, current_columns, tag_name, trim, recording, saved,
                   tag_start, body_start, jump_start, jump_line>>

\* One iteration of trim_content's for loop, or its end and the call of goto_next_tag.
TrimLine ==
    /\ pc = "trim"
    /\ IF remaining > 0
       THEN /\ output_lines' = Emit(output_lines, current_line)
            /\ origin' = Emit(origin, line_number + 1)
            /\ line_number' = next_line_number
            /\ remaining' = remaining - 1
            /\ pc' = "trim"
            /\ UNCHANGED <<recording, jump_start, jump_line>>
       ELSE /\ pc' = "goto"
            /\ recording' = FALSE
            /\ jump_start' = Len(output_lines)
            /\ jump_line' = line_number
            /\ UNCHANGED <<output_lines, origin, line_number, remaining>>
    /\ UNCHANGED <<lines, mesh, retrim, current_size, current_columns, tag_name, trim,
                   error, saved, tag_start, body_start>>

\* GotoLine that records no line at all.
GotoLineDiscardsAll ==
    /\ pc = "goto"
    /\ LET l == current_line
           rec == FALSE
       IN IF MatchOpener(l)
          THEN /\ pc' = "tag"
               /\ UNCHANGED <<output_lines, origin, line_number, recording>>
          ELSE /\ recording' = rec
               /\ output_lines' = IF rec THEN Emit(output_lines, l) ELSE output_lines
               /\ origin' = IF rec THEN Emit(origin, line_number + 1) ELSE origin
               /\ line_number' = next_line_number
               /\ pc' = IF is_end_of_file THEN "tag" ELSE "goto"
    /\ UNCHANGED <<lines, mesh, retrim, current_size, current_columns, tag_name, trim,
                   remaining, error, saved, tag_start, body_start, jump_start, jump_line>>

\* One iteration of goto_next_tag's loop.
GotoLine ==
    /\ pc = "goto"
    /\ LET l == current_line
           rec == recording \/ MatchLt(l)
       IN IF MatchOpener(l)
          THEN /\ pc' = "tag"
               /\ UNCHANGED <<output_lines, origin, line_number, recording>>
          ELSE /\ recording' = rec
               /\ output_lines' = IF rec THEN Emit(output_lines, l) ELSE output_lines
               /\ origin' = IF rec THEN Emit(origin, line_number + 1) ELSE origin
               /\ line_number' = next_line_number
               /\ pc' = IF is_end_of_file THEN "tag" ELSE "goto"
    /\ UNCHANGED <<lines, mesh, retrim, current_size, current_columns, tag_name, trim,
                   remaining, error, saved, tag_start, body_start, jump_start, jump_line>>

\* The saved output of a completed run is read back and trimmed again with the
\* same mesh by a new UpfTrimmer.
Retrim ==
    /\ pc = "done"
    /\ saved
    /\ ~retrim
    /\ retrim' = TRUE
    /\ lines' = ReadLines(Written(output_lines))
    /\ mesh' = mesh
    /\ line_number' = 0
    /\ output_lines' = <<>>
    /\ current_size' = None
    /\ current_columns' = None
    /\ tag_name' = ""
    /\ trim' = FALSE
    /\ remaining' = 0
    /\ recording' = FALSE
    /\ pc' = "tag"
    /\ error' = ""
    /\ saved' = FALSE
    /\ origin' = <<>>
    /\ tag_start' = 0
    /\ body_start' = None
    /\ jump_start' = None
    /\ jump_line' = None

Next ==
    \/ ProcessFileStop
    \/ ProcessTagNoMatch
    \/ ProcessTagOneLine
    \/ AfterOneLine
    \/ ProcessTagMultiLine
    \/ OpenerLine
    \/ OpenerAdvance
    \/ CopyLine
    \/ CopyCheck
    \/ TrimDecision
    \/ TrimLine
    \/ GotoLine

Spec == Init /\ [][Next]_vars

\* The same run on longer buffers over the Core lines.
LongSpec == InitLong /\ [][Next]_vars

\* The interpreter runs the next statement whenever there is one.
FairSpec == Spec /\ WF_vars(Next)

\* A run on a buffer over the Core lines, and after a completed run the trim of
\* its saved output.
RetrimSpec == InitLong /\ [][Next \/ Retrim]_vars

\* A run in one of its loops that never exit: the cursor is on the last line and
\* the loop's exit test fails there.
Looping ==
    /\ is_end_of_file
    /\ \/ pc \in {"tag", "after_opener"} /\ MatchOpener(current_line)
       \/ pc \in {"opener", "opener_gt"} /\ ~current_line.gt
       \/ pc \in {"copy", "copy_check"} /\ ~SearchOpener(current_line)

\* Only a run that never ends fills the OutCap entries the model keeps.
OutputBoundOnlyWhenLooping == Len(output_lines) >= OutCap - 1 => Looping

-----------------------------------------------------------------------------
(* Properties. *)

\* The process_tag call that began at tag_start returned at line 122: its
\* one-line opener was directly followed by a line that begins with <NAME.
EarlyReturn ==
    /\ lines[tag_start + 1].gt
    /\ MatchOpener(lines[(IF tag_start = total_nlines - 1 THEN tag_start
                                                           ELSE tag_start + 1) + 1])

\* process_tag has returned (without signalling stop) from the tag at tag_start.
Returned == pc = "tag" /\ tag_name # ""

\* C1 as stated: every allow-listed tag whose opener declares a size and
\* columns = c > 0 has floor(mesh / c) lines appended by the trim step between
\* its opener and the jump to the next tag.
C1_RowCountEveryTag ==
    (Returned /\ tag_name \in HEADERS /\ current_size # None /\ current_columns > 0)
        => (jump_start # None /\ jump_start - body_start = mesh \div current_columns)

\* C1 amended: whenever process_tag reaches its trim step (allow-listed tag,
\* non-zero declared size, columns = c > 0), trim_content appends exactly
\* floor(mesh / c) entries between the opener and the start of goto_next_tag;
\* the trim step is skipped only by a declared size of 0 or by a one-line opener
\* directly followed by another opener line.
C1_RowCount ==
    /\ pc = "trim" => Len(output_lines) - body_start = (mesh \div current_columns) - remaining
    /\ jump_start # None => jump_start - body_start = mesh \div current_columns
    /\ (Returned /\ tag_name \in HEADERS /\ current_size \notin {None, 0}
            /\ current_columns > 0 /\ ~EarlyReturn) => jump_start # None

\* A mesh that is no multiple of the columns: the partial row is dropped.
C1_Witness ==
    /\ pc = "goto"
    /\ mesh = 3
    /\ current_columns = 2
    /\ jump_start - body_start = 1

\* C2: after a run that completes, every output line that opens a tag and
\* carries a mesh_size attribute has the target mesh as its value.
C2_MeshSizeRewritten ==
    pc = "done" =>
        \A i \in 1..Len(output_lines) :
            (MatchOpener(output_lines[i]) /\ HasMeshSize(output_lines[i]))
                => output_lines[i].msz = mesh

\* C3: after a run that completes, the opener of every allow-listed tag that
\* carries a size attribute is in the output with size equal to the target mesh,
\* and the original value is the declared size that decides the trimming of the
\* tag.
C3_SizeRewritten ==
    /\ pc = "done" =>
          \A i \in 1..Len(output_lines) :
              (/\ origin[i] > 0
               /\ MatchOpener(lines[origin[i]])
               /\ lines[origin[i]].name \in HEADERS
               /\ lines[origin[i]].sz # None)
                  => output_lines[i].sz = mesh
    /\ (pc = "size" /\ lines[tag_start + 1].gt /\ lines[tag_start + 1].sz # None)
          => current_size = lines[tag_start + 1].sz

\* The 1-based lines at which a tag opener begins.
Openers == { k \in 1..total_nlines : MatchOpener(lines[k]) }

\* The last line of the opener that begins at line k (0: it is never closed).
OpenerEnd(k) ==
    LET closing == { j \in k..total_nlines : lines[j].gt }
    IN IF closing = {} THEN 0 ELSE CHOOSE j \in closing : \A x \in closing : j <= x

\* The first opener after line k (0: there is none).
NextOpener(k) ==
    LET later == { j \in Openers : j > k }
    IN IF later = {} THEN 0 ELSE CHOOSE j \in later : \A x \in later : j <= x

\* The lines between the opener at k and the next opener.
Between(k) ==
    IF OpenerEnd(k) = 0 \/ NextOpener(k) = 0 THEN {}
    ELSE { j \in 1..total_nlines : OpenerEnd(k) < j /\ j < NextOpener(k) }

\* The output entries that copy input line j.
Copies(j) == { i \in 1..Len(origin) : origin[i] = j }

\* C4: after a run that completes, for every tag not in the allow-list every
\* non-empty input line between its opener and the next opener is in the output
\* exactly once, unchanged, and these lines keep their order (save_output
\* writes no empty line, so only the non-empty ones can be told in the file).
C4_VerbatimCopy ==
    pc = "done" =>
        \A k \in Openers :
            lines[k].name \notin HEADERS =>
                /\ \A j \in Between(k) :
                      lines[j].kind # "empty" =>
                          /\ Cardinality(Copies(j)) = 1
                          /\ \A i \in Copies(j) : output_lines[i] = lines[j]
                /\ \A j1, j2 \in Between(k) :
                      j1 < j2 => \A i1 \in Copies(j1), i2 \in Copies(j2) : i1 < i2

\* C5: every run of process_file ends, by completion or by a raised failure.
C5_Terminates == <>(pc \in {"done", "failed"})

\* C6 as stated: an allow-listed tag that declares a size and has no columns
\* attribute, or columns = 0, ends the run in a failure: process_tag never
\* returns from it and the run never completes after it.
C6_MissingColumnsAlwaysFails ==
    ~(Returned /\ tag_name \in HEADERS /\ current_size # None
          /\ current_columns \in {None, 0})

\* C6 amended: when process_tag reaches its trim step for an allow-listed tag
\* with a non-zero declared size and columns absent or zero, the run fails
\* there (TypeError or ZeroDivisionError), nothing more is appended and
\* save_output is never called; process_tag returns from such a tag only at
\* line 122, when its one-line opener is directly followed by another opener.
C6_MissingColumnsFails ==
    /\ [](pc = "failed" => ~saved)
    /\ []((Returned /\ tag_name \in HEADERS /\ current_size \notin {None, 0}
              /\ current_columns \in {None, 0}) => EarlyReturn)
    /\ [][(pc = "size" /\ current_size \notin {None, 0} /\ current_columns \in {None, 0})
             => /\ pc' = "failed"
                /\ error' = (IF current_columns = None THEN "TypeError"
                                                       ELSE "ZeroDivisionError")
                /\ output_lines' = output_lines
                /\ saved' = FALSE]_vars

\* The run failed at the division of a sized tag without columns.
C6_Witness == pc = "failed" /\ error = "TypeError" /\ current_size = 7

\* C7: process_tag entered on a non-empty line that does not begin with <NAME
\* fails at once: nothing is appended, the cursor stays, nothing is saved.
C7_MalformedTagFails ==
    /\ [](pc = "failed" => ~saved)
    /\ [][(pc = "tag" /\ current_line.kind # "empty" /\ ~MatchOpener(current_line))
             => /\ pc' = "failed"
                /\ error' = "AttributeError"
                /\ output_lines' = output_lines
                /\ line_number' = line_number
                /\ saved' = FALSE]_vars

\* A later process_tag call failed on a line that opens no tag.
C7_Witness == pc = "failed" /\ error = "AttributeError" /\ line_number > 0

\* The input lines that trim_content copied for the tag at tag_start.
TrimmedRows == { origin[i] : i \in (body_start + 1)..jump_start }

\* C8: a run never completes having copied fewer distinct input rows than
\* floor(mesh / columns) for a trimmed tag.
C8_NoShortTrim ==
    (pc = "done" /\ jump_start # None)
        => Cardinality(TrimmedRows) = mesh \div current_columns

\* C9: the run completes and saves only when process_tag signals stop with the
\* cursor on the last line; a stop anywhere earlier fails the assert and
\* nothing is saved.
C9_ConsistencyCheck ==
    /\ [](saved => pc = "done")
    /\ [](pc = "done" => saved /\ is_end_of_file /\ current_line.kind = "empty")
    /\ [][(pc = "tag" /\ current_line.kind = "empty")
             => IF is_end_of_file
                THEN pc' = "done" /\ saved'
                ELSE pc' = "failed" /\ error' = "AssertionError" /\ ~saved']_vars

\* The stop signal came before the last line, after some output.
C9_Witness ==
    /\ pc = "failed"
    /\ error = "AssertionError"
    /\ ~is_end_of_file
    /\ Len(output_lines) > 0

\* C10: once process_tag has passed the opener of a PP_INFO tag, one-line or
\* multi-line, the output holds exactly one metadata block directly after the
\* opener's last line, before any line of the tag's body.
C10_MetadataAfterOpener ==
    (tag_name = "PP_INFO" /\ body_start # None /\ Len(output_lines) < OutCap - 1)
        => /\ body_start >= 2
           /\ output_lines[body_start].kind = "note"
           /\ origin[body_start] = 0
           /\ origin[body_start - 1] > 0
           /\ lines[origin[body_start - 1]].gt

\* The output entries of this run that copy a non-empty line of its buffer.
Kept == { i \in 1..Len(output_lines) : origin[i] # 0 /\ output_lines[i].kind # "empty" }

\* The non-empty lines of the buffer.
NonEmpty == { k \in 1..total_nlines : lines[k].kind # "empty" }

\* The file this run writes is its buffer with metadata blocks added: every
\* non-empty line of the buffer is written once, unchanged and in order.
Reproduced ==
    /\ { origin[i] : i \in Kept } = NonEmpty
    /\ \A i \in Kept : output_lines[i] = lines[origin[i]]
    /\ \A i1, i2 \in Kept : i1 < i2 => origin[i1] < origin[i2]

\* C11: the trim of the saved output of a completed run, with the same mesh,
\* completes too (it neither fails nor enters a loop it never leaves), and it
\* writes that file again (the same openers with the same size values, the
\* same rows) with nothing but metadata blocks added.
C11_RetrimIdempotent ==
    retrim =>
        /\ pc # "failed"
        /\ ~Looping
        /\ pc = "done" => Reproduced

\* The lines of the section of the tag whose opener begins at line k: the opener
\* through the line before the next opener, or through the last line.
Section(k) ==
    { j \in 1..total_nlines : k <= j /\ (NextOpener(k) = 0 \/ j < NextOpener(k)) }

\* C12: in every state, the output entries copied from the section of a tag that
\* is not in the allow-list (the metadata block not counted) are no more than
\* the input lines of that section.
C12_NonGrowth ==
    \A k \in Openers :
        lines[k].name \notin HEADERS =>
            Cardinality({ i \in 1..Len(origin) : origin[i] \in Section(k) })
                <= Cardinality(Section(k))

\* C13: in every state the cursor is a valid index of the buffer:
\* 0 <= line_number <= total_nlines - 1.
C13_CursorInRange == line_number \in 0..(total_nlines - 1)

\* trim_content called next_line on the last line and copied that line again.
C13_Witness ==
    /\ pc = "trim"
    /\ is_end_of_file
    /\ Len(origin) >= 2
    /\ origin[Len(origin)] = origin[Len(origin) - 1]

\* C14: whenever process_tag has returned without signalling stop, the current
\* line begins with a tag opener or is the last line of the buffer.
C14_ReturnsAtOpener == Returned => (MatchOpener(current_line) \/ is_end_of_file)

\* C15: the pass-through copy of a tag that is not in the allow-list never
\* appends a line that begins with a tag opener: whenever it is about to append
\* a line that no output entry copies yet, that line does not begin with <NAME.
C15_CopyStopsAtOpener ==
    (pc = "copy" /\ Copies(line_number + 1) = {}) => ~MatchOpener(current_line)

\* The lines goto_next_tag has scanned in the current process_tag call.
Scanned ==
    IF jump_line = None THEN {}
    ELSE { k \in 1..total_nlines :
             /\ k > jump_line
             /\ \/ k <= line_number
                \/ k = line_number + 1 /\ pc # "goto" /\ ~MatchOpener(lines[k]) }

\* The scanned lines from the first one that begins with '<' on.
JumpKept == { k \in Scanned : \E j \in Scanned : j <= k /\ MatchLt(lines[j]) }

C17_AppendOnly ==
    /\ output_lines = <<>>
    /\ [][/\ Len(output_lines') >= Len(output_lines)
          /\ SubSeq(output_lines', 1, Len(output_lines)) = output_lines]_vars

\* An output that replace_size, trim_content and goto_next_tag have appended to.
C17_Witness ==
    /\ jump_start # None
    /\ jump_start > body_start
    /\ Len(output_lines) > jump_start

\* C18: line_number starts at 0, every step leaves it unchanged or adds exactly
\* 1, and once it is total_nlines - 1 it stays there.
C18_SingleForwardPass ==
    /\ line_number = 0
    /\ [][/\ line_number' \in {line_number, line_number + 1}
          /\ line_number = total_nlines - 1 => line_number' = line_number]_vars

\* The cursor reached the last line of a three-line buffer and a loop goes on there.
C18_Witness ==
    /\ line_number = 2
    /\ is_end_of_file
    /\ pc = "copy_check"

\* current_size after replace_size on the opener lines k..e, starting from old.
RECURSIVE OpenerSize(_, _, _, _)
OpenerSize(k, e, t, old) ==
    IF k > e THEN old
    ELSE OpenerSize(k + 1, e, t, replace_size_size(lines[k], t, old))

\* current_columns after replace_size on the opener lines k..e, starting from old.
RECURSIVE OpenerColumns(_, _, _, _)
OpenerColumns(k, e, t, old) ==
    IF k > e THEN old
    ELSE OpenerColumns(k + 1, e, t, replace_size_columns(lines[k], t, old))

\* C19: at the trim decision and during the trim of a tag, current_size and
\* current_columns are the values parsed from that tag's own opener, None when
\* the opener holds none, whatever the tags before it declared.
C19_OwnAttributes ==
    pc \in {"size", "trim", "goto"} =>
        LET k == tag_start + 1
            t == lines[k].name \in HEADERS
        IN /\ current_size = OpenerSize(k, OpenerEnd(k), t, None)
           /\ current_columns = OpenerColumns(k, OpenerEnd(k), t, None)

\* An allow-listed tag without size reaches the trim decision after a tag that
\* declared a size.
C19_Witness ==
    /\ pc = "size"
    /\ tag_start > 0
    /\ current_size = None
    /\ \E k \in 1..tag_start :
          MatchOpener(lines[k]) /\ lines[k].name \in HEADERS /\ lines[k].sz \notin {None, 0}

=============================================================================
